---------------------------- MODULE Spec2Model ----------------------------
(***************************************************************************)
(* Model of the user-scripts console of the experimental app shell: the    *)
(* React component that loads the scripts, runs them, brokers their        *)
(* prompts and keeps their console transcripts.                            *)
(*                                                                         *)
(* One action is one event handler, or one continuation of a script's      *)
(* execute() between two suspension points.  React state setters used by   *)
(* the handlers are functional updates, so a handler is one atomic step on *)
(* the committed state.  ConsoleMessage.id and ConsoleMessage.timestamp    *)
(* (clock and random values) are carried by no entry of the model.         *)
(***************************************************************************)
EXTENDS Integers, Sequences, FiniteSets, TLC

(***************************************************************************)
(* Bounds of the model.                                                    *)
(***************************************************************************)
MaxSteps == 6
MaxFiles == 3
MaxLog == 2

ScriptIds == {"a", "b"}
Values == {"", "hello", "YES"}
LogTexts == {"I: hi"}
PromptTexts == {"name?"}
Reasons == {"", "why"}
Percents == {-5, 150}
Durations == {0, 12}
\* what execute() throws: an Error with a message, or a bare string
Thrown == {[isError |-> TRUE, message |-> "boom", str |-> "Error: boom"],
           [isError |-> FALSE, message |-> "", str |-> "oops"]}

VARIABLES
    userScripts,            \* the files of require.context('scripts/userScripts'), in key order
    production,             \* process.env.NODE_ENV === 'production'
    scripts,                \* Script[]
    mounted,                \* the mount effect has run
    api,                    \* useApi().api is available
    runningScripts,         \* Set<string>
    scriptStatuses,         \* Map<string, ScriptStatus>
    executionTimes,         \* Map<string, number>
    consoleOutput,          \* Map<string, ConsoleMessage[]>
    pendingInput,           \* PendingInput | null
    inputValue,             \* string
    progressState,          \* ProgressState | null
    scriptStatusOverrides,  \* Map<string, 'skip' | 'fail'>
    consoleSettings,        \* Map<string, ConsoleSettings>
    copiedScriptId,         \* string | null
    clipboard,              \* the text navigator.clipboard holds, or null
    pc,                     \* per script id: where its execute() is
    promises,               \* per script id: the promises its run's prompts returned
    runPromise,             \* per script id: the promise of its admitted runScript() call
    activeRuns,             \* per script id: calls of execute not yet settled
    overrideCalls,          \* per script id: skip/fail calls its run in progress has made
    steps                   \* handlers and continuations run so far

loaderVars == <<userScripts, production, scripts, mounted>>
viewVars == <<consoleSettings, copiedScriptId, clipboard>>

vars == <<userScripts, production, scripts, mounted,
          consoleSettings, copiedScriptId, clipboard,
          api, runningScripts, scriptStatuses, executionTimes, consoleOutput,
          pendingInput, inputValue, progressState, scriptStatusOverrides,
          pc, promises, runPromise, activeRuns, overrideCalls, steps>>

(***************************************************************************)
(* JavaScript values.                                                      *)
(***************************************************************************)
Null == [isNull |-> TRUE]
Undefined == [t |-> "undefined", v |-> ""]
Unsettled == [t |-> "unsettled", v |-> ""]
Str(v) == [t |-> "string", v |-> v]
Bool(b) == [t |-> "boolean", v |-> IF b THEN "true" ELSE "false"]

\* Map<K, V> as a function on the keys present
EmptyMap == <<>>
MapHas(m, k) == k \in DOMAIN m
MapGet(m, k, default) == IF k \in DOMAIN m THEN m[k] ELSE default
MapSet(m, k, v) == [x \in (DOMAIN m) \cup {k} |-> IF x = k THEN v ELSE m[x]]
MapDelete(m, k) == [x \in (DOMAIN m) \ {k} |-> m[x]]

Min(x, y) == IF x < y THEN x ELSE y
Max(x, y) == IF x > y THEN x ELSE y

\* String.prototype.toLowerCase on the values of the model
toLowerCase(v) == IF v = "YES" THEN "yes" ELSE IF v = "README" THEN "readme" ELSE v

\* script.metadata.name
name(scriptId) == IF scriptId = "a" THEN "Alpha" ELSE "Beta"

\* the options of the one select prompt scripts issue: label -> value
SelectOptions == <<[label |-> "Greeting", value |-> "hello"]>>

\* scriptStatuses.get(scriptId) || 'idle' and consoleOutput.get(scriptId) || []:
\* every read of these two maps defaults a missing key, so each is a total
\* function holding the default where the Map has no key
StatusOf(scriptId) == scriptStatuses[scriptId]
OutputOf(scriptId) == consoleOutput[scriptId]

(***************************************************************************)
(* log(scriptId, message): the functional update of consoleOutput          *)
(***************************************************************************)
log_Broadcast(out, scriptId, message) ==
    [s \in DOMAIN out |-> Append(out[s], [message |-> message, type |-> "log"])]

log_Prepend(out, scriptId, message) ==
    [out EXCEPT ![scriptId] = <<[message |-> message, type |-> "log"]>> \o @]

log(out, scriptId, message) ==
    [out EXCEPT ![scriptId] = Append(@, [message |-> message, type |-> "log"])]

(***************************************************************************)
(* The mount effect: the registry of scripts.  A file of the userScripts   *)
(* directory is its key ./<name>.<ext> and what requiring its module gives: *)
(* an exception, a module without a default object, or a default object    *)
(* (the metadata) with its isExample flag.                                 *)
(***************************************************************************)
FileNames == {"a", "b", "README"}
FileExts == {"ts", "js"}
ModuleKinds == {"throws", "nodefault", "object"}
Files == {f \in [name : FileNames, ext : FileExts, kind : ModuleKinds, isExample : BOOLEAN] :
             f.isExample => f.kind = "object"}

\* key.replace('./', '').replace(/\.(ts|tsx|js|jsx)$/, '').split('/').pop()
scriptIdOf(file) == file.name

includesReadme_CaseSensitive(scriptId) == scriptId = "readme"

\* scriptId.toLowerCase().includes('readme')
includesReadme(scriptId) == toLowerCase(scriptId) = "readme"

\* the forEach over scriptContext.keys() from key i on, inside the try block:
\* an exception thrown by a module leaves the loop for the catch block
RECURSIVE LoadFrom(_, _, _, _, _)
LoadFrom(files, isProduction, i, loadedScripts, seenIds) ==
    IF i > Len(files) THEN loadedScripts
    ELSE LET file == files[i]
             scriptId == scriptIdOf(file)
         IN  IF includesReadme(scriptId) \/ scriptId \in seenIds
             THEN LoadFrom(files, isProduction, i + 1, loadedScripts, seenIds)
             ELSE IF file.kind = "throws"
             THEN loadedScripts
             ELSE IF file.kind = "object" /\ ~(isProduction /\ file.isExample)
             THEN LoadFrom(files, isProduction, i + 1,
                           Append(loadedScripts, [id |-> scriptId, metadata |-> file]),
                           seenIds \cup {scriptId})
             ELSE LoadFrom(files, isProduction, i + 1, loadedScripts, seenIds \cup {scriptId})

\* the two scripts the console runs
Bundle == <<[name |-> "a", ext |-> "ts", kind |-> "object", isExample |-> FALSE],
            [name |-> "b", ext |-> "ts", kind |-> "object", isExample |-> FALSE]>>

\* the useState and useRef initial values of the console
ConsoleInit ==
    /\ api \in BOOLEAN
    /\ runningScripts = {}
    /\ scriptStatuses = [s \in ScriptIds |-> "idle"]
    /\ executionTimes = EmptyMap
    /\ consoleOutput = [s \in ScriptIds |-> <<>>]
    /\ pendingInput = Null
    /\ inputValue = ""
    /\ progressState = Null
    /\ scriptStatusOverrides = EmptyMap
    /\ consoleSettings = EmptyMap
    /\ copiedScriptId = Null
    /\ clipboard = Null
    /\ pc = [s \in ScriptIds |-> "none"]
    /\ promises = [s \in ScriptIds |-> <<>>]
    /\ runPromise = [s \in ScriptIds |-> "none"]
    /\ activeRuns = [s \in ScriptIds |-> 0]
    /\ overrideCalls = [s \in ScriptIds |-> {}]
    /\ steps = 0

\* the component after its mount effect has loaded the bundle
Init ==
    /\ userScripts = Bundle
    /\ production = FALSE
    /\ scripts = LoadFrom(Bundle, FALSE, 1, <<>>, {})
    /\ mounted = TRUE
    /\ ConsoleInit

\* the mount effect: setScripts(loadedScripts)
LoadScripts ==
    /\ ~mounted
    /\ mounted' = TRUE
    /\ scripts' = LoadFrom(userScripts, production, 1, <<>>, {})
    /\ UNCHANGED viewVars
    /\ UNCHANGED <<userScripts, production,
                   api, runningScripts, scriptStatuses, executionTimes, consoleOutput,
                   pendingInput, inputValue, progressState, scriptStatusOverrides,
                   pc, promises, runPromise, activeRuns, overrideCalls, steps>>

\* webpack gives every file one key: no two files share name and extension
Bundles ==
    {b \in UNION {[1..n -> Files] : n \in 0..MaxFiles} :
        \A i, j \in 1..Len(b) :
           (b[i].name = b[j].name /\ b[i].ext = b[j].ext) => i = j}

\* the component before its mount effect, over any bundle and build
InitLoad ==
    /\ userScripts \in Bundles
    /\ production \in BOOLEAN
    /\ scripts = <<>>
    /\ mounted = FALSE
    /\ ConsoleInit

NextLoad == LoadScripts

SpecLoad == InitLoad /\ [][NextLoad]_vars

\* the model follows the program for MaxSteps handlers and continuations
Tick == steps < MaxSteps /\ steps' = steps + 1

(***************************************************************************)
(* runScript(script), up to the call of execute.  activeRuns counts the    *)
(* calls of execute that have not settled; runPromise is the promise of    *)
(* the admitted runScript() call; overrideCalls records which of skip()    *)
(* and fail() the run in progress has called.                              *)
(***************************************************************************)
NoApi(scriptId) ==
    UNCHANGED <<api, runningScripts, scriptStatuses, executionTimes, consoleOutput,
                pendingInput, inputValue, progressState, scriptStatusOverrides,
                pc, promises, runPromise, activeRuns, overrideCalls>>

Reject_MarksError(scriptId, message) ==
    /\ consoleOutput' = log(consoleOutput, scriptId, message)
    /\ scriptStatuses' = [scriptStatuses EXCEPT ![scriptId] = "error"]
    /\ UNCHANGED <<api, runningScripts, executionTimes,
                   pendingInput, inputValue, progressState, scriptStatusOverrides,
                   pc, promises, runPromise, activeRuns, overrideCalls>>

Reject(scriptId, message) ==
    /\ consoleOutput' = log(consoleOutput, scriptId, message)
    /\ UNCHANGED <<api, runningScripts, scriptStatuses, executionTimes,
                   pendingInput, inputValue, progressState, scriptStatusOverrides,
                   pc, promises, runPromise, activeRuns, overrideCalls>>

Admit_KeepsLog(scriptId) ==
    /\ scriptStatusOverrides' = MapDelete(scriptStatusOverrides, scriptId)
    /\ runningScripts' = runningScripts \cup {scriptId}
    /\ scriptStatuses' = [scriptStatuses EXCEPT ![scriptId] = "running"]
    /\ consoleOutput' = log(consoleOutput, scriptId, "Starting script: " \o name(scriptId))
    /\ pc' = [pc EXCEPT ![scriptId] = "exec"]
    /\ promises' = [promises EXCEPT ![scriptId] = <<>>]
    /\ runPromise' = [runPromise EXCEPT ![scriptId] = "pending"]
    /\ activeRuns' = [activeRuns EXCEPT ![scriptId] = @ + 1]
    /\ overrideCalls' = [overrideCalls EXCEPT ![scriptId] = {}]
    /\ UNCHANGED <<api, executionTimes, pendingInput, inputValue, progressState>>

Admit_NoStartLine(scriptId) ==
    /\ scriptStatusOverrides' = MapDelete(scriptStatusOverrides, scriptId)
    /\ runningScripts' = runningScripts \cup {scriptId}
    /\ scriptStatuses' = [scriptStatuses EXCEPT ![scriptId] = "running"]
    /\ consoleOutput' = [consoleOutput EXCEPT ![scriptId] = <<>>]
    /\ pc' = [pc EXCEPT ![scriptId] = "exec"]
    /\ promises' = [promises EXCEPT ![scriptId] = <<>>]
    /\ runPromise' = [runPromise EXCEPT ![scriptId] = "pending"]
    /\ activeRuns' = [activeRuns EXCEPT ![scriptId] = @ + 1]
    /\ overrideCalls' = [overrideCalls EXCEPT ![scriptId] = {}]
    /\ UNCHANGED <<api, executionTimes, pendingInput, inputValue, progressState>>

Admit(scriptId) ==
    /\ scriptStatusOverrides' = MapDelete(scriptStatusOverrides, scriptId)
    /\ runningScripts' = runningScripts \cup {scriptId}
    /\ scriptStatuses' = [scriptStatuses EXCEPT ![scriptId] = "running"]
    /\ consoleOutput' = log([consoleOutput EXCEPT ![scriptId] = <<>>], scriptId,
                            "Starting script: " \o name(scriptId))
    /\ pc' = [pc EXCEPT ![scriptId] = "exec"]
    /\ promises' = [promises EXCEPT ![scriptId] = <<>>]
    /\ runPromise' = [runPromise EXCEPT ![scriptId] = "pending"]
    /\ activeRuns' = [activeRuns EXCEPT ![scriptId] = @ + 1]
    /\ overrideCalls' = [overrideCalls EXCEPT ![scriptId] = {}]
    /\ UNCHANGED <<api, executionTimes, pendingInput, inputValue, progressState>>

RunScript_OnlyIdle(scriptId) ==
    /\ Tick
    /\ UNCHANGED loaderVars
    /\ UNCHANGED viewVars
    /\ IF ~api THEN NoApi(scriptId)
       ELSE IF scriptStatuses[scriptId] # "idle"
            THEN Reject(scriptId, "W: Script is already running")
       ELSE IF pendingInput # Null /\ pendingInput.scriptId # scriptId
            THEN Reject(scriptId, "W: Another script is waiting for input")
       ELSE Admit(scriptId)

RunScript_NoRunningCheck(scriptId) ==
    /\ Tick
    /\ UNCHANGED loaderVars
    /\ UNCHANGED viewVars
    /\ IF ~api THEN NoApi(scriptId)
       ELSE IF pendingInput # Null /\ pendingInput.scriptId # scriptId
            THEN Reject(scriptId, "W: Another script is waiting for input")
       ELSE Admit(scriptId)

RunScript_NoPendingCheck(scriptId) ==
    /\ Tick
    /\ UNCHANGED loaderVars
    /\ UNCHANGED viewVars
    /\ IF ~api THEN NoApi(scriptId)
       ELSE IF scriptId \in runningScripts
            THEN Reject(scriptId, "W: Script is already running")
       ELSE Admit(scriptId)

RunScript_Serial(scriptId) ==
    /\ Tick
    /\ UNCHANGED loaderVars
    /\ UNCHANGED viewVars
    /\ IF ~api THEN NoApi(scriptId)
       ELSE IF runningScripts # {}
            THEN Reject(scriptId, "W: Script is already running")
       ELSE Admit(scriptId)

RunScript(scriptId) ==
    /\ Tick
    /\ UNCHANGED loaderVars
    /\ UNCHANGED viewVars
    /\ IF ~api THEN NoApi(scriptId)
       ELSE IF scriptId \in runningScripts
            THEN Reject(scriptId, "W: Script is already running")
       ELSE IF pendingInput # Null /\ pendingInput.scriptId # scriptId
            THEN Reject(scriptId, "W: Another script is waiting for input")
       ELSE Admit(scriptId)

(***************************************************************************)
(* The context object of a run: the calls execute() makes between two      *)
(* suspension points.  pc[scriptId] = "exec" while the script's code runs, *)
(* "await" while it is suspended on the promise of its latest prompt.      *)
(***************************************************************************)
CtxLog(scriptId, message) ==
    /\ Tick
    /\ UNCHANGED loaderVars
    /\ UNCHANGED viewVars
    /\ pc[scriptId] = "exec"
    /\ consoleOutput' = log(consoleOutput, scriptId, message)
    /\ UNCHANGED <<api, runningScripts, scriptStatuses, executionTimes,
                   pendingInput, inputValue, progressState, scriptStatusOverrides,
                   pc, promises, runPromise, activeRuns, overrideCalls>>

handleUserInput_FirstWins(scriptId, prompt, type, awaited) ==
    /\ Tick
    /\ UNCHANGED loaderVars
    /\ UNCHANGED viewVars
    /\ pc[scriptId] = "exec"
    /\ consoleOutput' = log(consoleOutput, scriptId, prompt)
    /\ scriptStatuses' = [scriptStatuses EXCEPT ![scriptId] = "waiting"]
    /\ promises' = [promises EXCEPT ![scriptId] = Append(@, Unsettled)]
    /\ pendingInput' = IF pendingInput # Null THEN pendingInput
                       ELSE [scriptId |-> scriptId,
                             prompt |-> prompt,
                             type |-> type,
                             options |-> IF type = "select" THEN SelectOptions ELSE <<>>,
                             resolve |-> Len(promises[scriptId]) + 1]
    /\ pc' = [pc EXCEPT ![scriptId] = IF awaited THEN "await" ELSE "exec"]
    /\ UNCHANGED <<api, runningScripts, executionTimes, inputValue, progressState,
                   scriptStatusOverrides, runPromise, activeRuns, overrideCalls>>

handleUserInput_NoPromptLine(scriptId, prompt, type, awaited) ==
    /\ Tick
    /\ UNCHANGED loaderVars
    /\ UNCHANGED viewVars
    /\ pc[scriptId] = "exec"
    /\ scriptStatuses' = [scriptStatuses EXCEPT ![scriptId] = "waiting"]
    /\ promises' = [promises EXCEPT ![scriptId] = Append(@, Unsettled)]
    /\ pendingInput' = [scriptId |-> scriptId,
                        prompt |-> prompt,
                        type |-> type,
                        options |-> IF type = "select" THEN SelectOptions ELSE <<>>,
                        resolve |-> Len(promises[scriptId]) + 1]
    /\ pc' = [pc EXCEPT ![scriptId] = IF awaited THEN "await" ELSE "exec"]
    /\ UNCHANGED <<api, runningScripts, executionTimes, consoleOutput, inputValue,
                   progressState, scriptStatusOverrides, runPromise, activeRuns,
                   overrideCalls>>

\* handleUserInput(scriptId, prompt, type, options); the script awaits the
\* returned promise or drops it
handleUserInput(scriptId, prompt, type, awaited) ==
    /\ Tick
    /\ UNCHANGED loaderVars
    /\ UNCHANGED viewVars
    /\ pc[scriptId] = "exec"
    /\ consoleOutput' = log(consoleOutput, scriptId, prompt)
    /\ scriptStatuses' = [scriptStatuses EXCEPT ![scriptId] = "waiting"]
    /\ promises' = [promises EXCEPT ![scriptId] = Append(@, Unsettled)]
    /\ pendingInput' = [scriptId |-> scriptId,
                        prompt |-> prompt,
                        type |-> type,
                        options |-> IF type = "select" THEN SelectOptions ELSE <<>>,
                        resolve |-> Len(promises[scriptId]) + 1]
    /\ pc' = [pc EXCEPT ![scriptId] = IF awaited THEN "await" ELSE "exec"]
    /\ UNCHANGED <<api, runningScripts, executionTimes, inputValue, progressState,
                   scriptStatusOverrides, runPromise, activeRuns, overrideCalls>>

CtxProgress_Unclamped(scriptId, message, percent) ==
    /\ Tick
    /\ UNCHANGED loaderVars
    /\ UNCHANGED viewVars
    /\ pc[scriptId] = "exec"
    /\ progressState' = [scriptId |-> scriptId,
                         message |-> message,
                         percent |-> percent]
    /\ UNCHANGED <<api, runningScripts, scriptStatuses, executionTimes, consoleOutput,
                   pendingInput, inputValue, scriptStatusOverrides,
                   pc, promises, runPromise, activeRuns, overrideCalls>>

CtxProgress(scriptId, message, percent) ==
    /\ Tick
    /\ UNCHANGED loaderVars
    /\ UNCHANGED viewVars
    /\ pc[scriptId] = "exec"
    /\ progressState' = [scriptId |-> scriptId,
                         message |-> message,
                         percent |-> Min(100, Max(0, percent))]
    /\ UNCHANGED <<api, runningScripts, scriptStatuses, executionTimes, consoleOutput,
                   pendingInput, inputValue, scriptStatusOverrides,
                   pc, promises, runPromise, activeRuns, overrideCalls>>

\* if (reason): undefined and '' are falsy
Truthy(reason) == reason.t = "string" /\ reason.v # ""

CtxSkip_EndsRun(scriptId, reason) ==
    /\ Tick
    /\ UNCHANGED loaderVars
    /\ UNCHANGED viewVars
    /\ pc[scriptId] = "exec"
    /\ scriptStatusOverrides' = MapSet(scriptStatusOverrides, scriptId, "skip")
    /\ overrideCalls' = [overrideCalls EXCEPT ![scriptId] = @ \cup {"skip"}]
    /\ scriptStatuses' = [scriptStatuses EXCEPT ![scriptId] = "skipped"]
    /\ consoleOutput' = IF Truthy(reason)
                        THEN log(consoleOutput, scriptId, "I: Skipped: " \o reason.v)
                        ELSE consoleOutput
    /\ UNCHANGED <<api, runningScripts, executionTimes,
                   pendingInput, inputValue, progressState,
                   pc, promises, runPromise, activeRuns>>

CtxSkip(scriptId, reason) ==
    /\ Tick
    /\ UNCHANGED loaderVars
    /\ UNCHANGED viewVars
    /\ pc[scriptId] = "exec"
    /\ scriptStatusOverrides' = MapSet(scriptStatusOverrides, scriptId, "skip")
    /\ overrideCalls' = [overrideCalls EXCEPT ![scriptId] = @ \cup {"skip"}]
    /\ consoleOutput' = IF Truthy(reason)
                        THEN log(consoleOutput, scriptId, "I: Skipped: " \o reason.v)
                        ELSE consoleOutput
    /\ UNCHANGED <<api, runningScripts, scriptStatuses, executionTimes,
                   pendingInput, inputValue, progressState,
                   pc, promises, runPromise, activeRuns>>

CtxFail(scriptId, reason) ==
    /\ Tick
    /\ UNCHANGED loaderVars
    /\ UNCHANGED viewVars
    /\ pc[scriptId] = "exec"
    /\ scriptStatusOverrides' = MapSet(scriptStatusOverrides, scriptId, "fail")
    /\ overrideCalls' = [overrideCalls EXCEPT ![scriptId] = @ \cup {"fail"}]
    /\ consoleOutput' = IF Truthy(reason)
                        THEN log(consoleOutput, scriptId, "E: Failed: " \o reason.v)
                        ELSE consoleOutput
    /\ UNCHANGED <<api, runningScripts, scriptStatuses, executionTimes,
                   pendingInput, inputValue, progressState,
                   pc, promises, runPromise, activeRuns>>

\* the awaited promise has been settled: the script's code continues
Resume(scriptId) ==
    /\ Tick
    /\ UNCHANGED loaderVars
    /\ UNCHANGED viewVars
    /\ pc[scriptId] = "await"
    /\ promises[scriptId][Len(promises[scriptId])] # Unsettled
    /\ pc' = [pc EXCEPT ![scriptId] = "exec"]
    /\ UNCHANGED <<api, runningScripts, scriptStatuses, executionTimes, consoleOutput,
                   pendingInput, inputValue, progressState, scriptStatusOverrides,
                   promises, runPromise, activeRuns, overrideCalls>>

(***************************************************************************)
(* runScript(script), from the settlement of execute: the classification   *)
(* or the catch block, then the finally block                              *)
(***************************************************************************)
Classify_IgnoresSkip(scriptId) ==
    LET override == MapGet(scriptStatusOverrides, scriptId, "undefined")
    IN  IF override = "fail" THEN
            /\ consoleOutput' = log(consoleOutput, scriptId, "E: Script failed")
            /\ scriptStatuses' = [scriptStatuses EXCEPT ![scriptId] = "error"]
        ELSE
            /\ consoleOutput' = log(consoleOutput, scriptId, "S: Script completed successfully")
            /\ scriptStatuses' = [scriptStatuses EXCEPT ![scriptId] = "success"]

Classify(scriptId) ==
    LET override == MapGet(scriptStatusOverrides, scriptId, "undefined")
    IN  IF override = "skip" THEN
            /\ consoleOutput' = log(consoleOutput, scriptId, "I: Script skipped")
            /\ scriptStatuses' = [scriptStatuses EXCEPT ![scriptId] = "skipped"]
        ELSE IF override = "fail" THEN
            /\ consoleOutput' = log(consoleOutput, scriptId, "E: Script failed")
            /\ scriptStatuses' = [scriptStatuses EXCEPT ![scriptId] = "error"]
        ELSE
            /\ consoleOutput' = log(consoleOutput, scriptId, "S: Script completed successfully")
            /\ scriptStatuses' = [scriptStatuses EXCEPT ![scriptId] = "success"]

\* error instanceof Error ? error.message : String(error)
ErrorText(error) == IF error.isError THEN error.message ELSE error.str

Catch_HonoursOverride(scriptId, error) ==
    /\ consoleOutput' = log(consoleOutput, scriptId, "E: Error: " \o ErrorText(error))
    /\ scriptStatuses' = [scriptStatuses EXCEPT ![scriptId] =
                              IF MapGet(scriptStatusOverrides, scriptId, "undefined") = "skip"
                              THEN "skipped" ELSE "error"]
    /\ runPromise' = [runPromise EXCEPT ![scriptId] = "fulfilled"]

Catch(scriptId, error) ==
    /\ consoleOutput' = log(consoleOutput, scriptId, "E: Error: " \o ErrorText(error))
    /\ scriptStatuses' = [scriptStatuses EXCEPT ![scriptId] = "error"]
    /\ runPromise' = [runPromise EXCEPT ![scriptId] = "fulfilled"]

Finally_KeepProgress(scriptId) ==
    /\ \E duration \in Durations :
          executionTimes' = MapSet(executionTimes, scriptId, duration)
    /\ runningScripts' = runningScripts \ {scriptId}
    /\ pendingInput' = IF pendingInput # Null /\ pendingInput.scriptId = scriptId
                       THEN Null ELSE pendingInput
    /\ inputValue' = ""
    /\ progressState' = progressState
    /\ scriptStatusOverrides' = MapDelete(scriptStatusOverrides, scriptId)
    /\ activeRuns' = [activeRuns EXCEPT ![scriptId] = @ - 1]

Finally_KeepPending(scriptId) ==
    /\ \E duration \in Durations :
          executionTimes' = MapSet(executionTimes, scriptId, duration)
    /\ runningScripts' = runningScripts \ {scriptId}
    /\ pendingInput' = pendingInput
    /\ inputValue' = ""
    /\ progressState' = IF progressState # Null /\ progressState.scriptId = scriptId
                        THEN Null ELSE progressState
    /\ scriptStatusOverrides' = MapDelete(scriptStatusOverrides, scriptId)
    /\ activeRuns' = [activeRuns EXCEPT ![scriptId] = @ - 1]

Finally_ClearsAll(scriptId) ==
    /\ \E duration \in Durations :
          executionTimes' = MapSet(executionTimes, scriptId, duration)
    /\ runningScripts' = runningScripts \ {scriptId}
    /\ pendingInput' = Null
    /\ inputValue' = ""
    /\ progressState' = Null
    /\ scriptStatusOverrides' = MapDelete(scriptStatusOverrides, scriptId)
    /\ activeRuns' = [activeRuns EXCEPT ![scriptId] = @ - 1]

\* Math.round(endTime - startTime) is the duration the clock gives the run
Finally(scriptId) ==
    /\ \E duration \in Durations :
          executionTimes' = MapSet(executionTimes, scriptId, duration)
    /\ runningScripts' = runningScripts \ {scriptId}
    /\ pendingInput' = IF pendingInput # Null /\ pendingInput.scriptId = scriptId
                       THEN Null ELSE pendingInput
    /\ inputValue' = ""
    /\ progressState' = IF progressState # Null /\ progressState.scriptId = scriptId
                        THEN Null ELSE progressState
    /\ scriptStatusOverrides' = MapDelete(scriptStatusOverrides, scriptId)
    /\ activeRuns' = [activeRuns EXCEPT ![scriptId] = @ - 1]

ExecReturn(scriptId) ==
    /\ Tick
    /\ UNCHANGED loaderVars
    /\ UNCHANGED viewVars
    /\ pc[scriptId] = "exec"
    /\ Classify(scriptId)
    /\ runPromise' = [runPromise EXCEPT ![scriptId] = "fulfilled"]
    /\ Finally(scriptId)
    /\ pc' = [pc EXCEPT ![scriptId] = "none"]
    /\ overrideCalls' = [overrideCalls EXCEPT ![scriptId] = {}]
    /\ UNCHANGED <<api, promises>>

ExecThrow(scriptId, error) ==
    /\ Tick
    /\ UNCHANGED loaderVars
    /\ UNCHANGED viewVars
    /\ pc[scriptId] = "exec"
    /\ Catch(scriptId, error)
    /\ Finally(scriptId)
    /\ pc' = [pc EXCEPT ![scriptId] = "none"]
    /\ overrideCalls' = [overrideCalls EXCEPT ![scriptId] = {}]
    /\ UNCHANGED <<api, promises>>

(***************************************************************************)
(* The prompt broker's handlers                                            *)
(***************************************************************************)
\* resolve(value) of the promise pendingInput holds; settling a settled
\* promise again changes nothing
Resolve(value) ==
    [promises EXCEPT ![pendingInput.scriptId][pendingInput.resolve] =
        IF @ = Unsettled THEN value ELSE @]

\* value !== undefined ? value : inputValue
finalValue_Falsy(value) == IF value # Undefined /\ value.v # "" THEN value.v ELSE inputValue

finalValue(value) == IF value # Undefined THEN value.v ELSE inputValue

submitInput(value) ==
    /\ Tick
    /\ UNCHANGED loaderVars
    /\ UNCHANGED viewVars
    /\ IF pendingInput = Null THEN
          UNCHANGED <<api, runningScripts, scriptStatuses, executionTimes, consoleOutput,
                      pendingInput, inputValue, progressState, scriptStatusOverrides,
                      pc, promises, runPromise, activeRuns, overrideCalls>>
       ELSE
          LET scriptId == pendingInput.scriptId
              type == pendingInput.type
              confirmed == toLowerCase(finalValue(value)) = "yes"
          IN  /\ IF type = "input" \/ type = "select" THEN
                    /\ consoleOutput' = log(consoleOutput, scriptId,
                                            IF finalValue(value) # "" THEN finalValue(value)
                                            ELSE "(empty)")
                    /\ promises' = Resolve(Str(finalValue(value)))
                 ELSE
                    /\ consoleOutput' = log(consoleOutput, scriptId,
                                            IF confirmed THEN "Yes" ELSE "No")
                    /\ promises' = Resolve(Bool(confirmed))
              /\ scriptStatuses' = [scriptStatuses EXCEPT ![scriptId] = "running"]
              /\ pendingInput' = Null
              /\ inputValue' = ""
              /\ UNCHANGED <<api, runningScripts, executionTimes, progressState,
                             scriptStatusOverrides, pc, runPromise, activeRuns, overrideCalls>>

\* type === 'input' ? '' : false
cancelValue_AlwaysEmpty(type) == Str("")

cancelValue(type) == IF type = "input" THEN Str("") ELSE Bool(FALSE)

cancelInput_NoGuard ==
    /\ Tick
    /\ UNCHANGED loaderVars
    /\ UNCHANGED viewVars
    /\ IF pendingInput = Null THEN
          /\ consoleOutput' = [s \in ScriptIds |->
                                  IF s \in runningScripts
                                  THEN Append(consoleOutput[s],
                                              [message |-> "W: User cancelled input", type |-> "log"])
                                  ELSE consoleOutput[s]]
          /\ UNCHANGED <<api, runningScripts, scriptStatuses, executionTimes,
                         pendingInput, inputValue, progressState, scriptStatusOverrides,
                         pc, promises, runPromise, activeRuns, overrideCalls>>
       ELSE
          LET scriptId == pendingInput.scriptId
              type == pendingInput.type
          IN  /\ consoleOutput' = log(consoleOutput, scriptId, "W: User cancelled input")
              /\ promises' = Resolve(cancelValue(type))
              /\ scriptStatuses' = [scriptStatuses EXCEPT ![scriptId] = "running"]
              /\ pendingInput' = Null
              /\ inputValue' = ""
              /\ UNCHANGED <<api, runningScripts, executionTimes, progressState,
                             scriptStatusOverrides, pc, runPromise, activeRuns, overrideCalls>>

cancelInput ==
    /\ Tick
    /\ UNCHANGED loaderVars
    /\ UNCHANGED viewVars
    /\ IF pendingInput = Null THEN
          UNCHANGED <<api, runningScripts, scriptStatuses, executionTimes, consoleOutput,
                      pendingInput, inputValue, progressState, scriptStatusOverrides,
                      pc, promises, runPromise, activeRuns, overrideCalls>>
       ELSE
          LET scriptId == pendingInput.scriptId
              type == pendingInput.type
          IN  /\ consoleOutput' = log(consoleOutput, scriptId, "W: User cancelled input")
              /\ promises' = Resolve(cancelValue(type))
              /\ scriptStatuses' = [scriptStatuses EXCEPT ![scriptId] = "running"]
              /\ pendingInput' = Null
              /\ inputValue' = ""
              /\ UNCHANGED <<api, runningScripts, executionTimes, progressState,
                             scriptStatusOverrides, pc, runPromise, activeRuns, overrideCalls>>

\* the text field or the select element of the console footer exists while the
\* card of the prompting script shows its console and the prompt
InputElementShown ==
    /\ pendingInput # Null
    /\ pendingInput.type \in {"input", "select"}
    /\ Len(OutputOf(pendingInput.scriptId)) > 0

\* the card of a script renders its ConsoleFooter, with the controls that
\* submit and cancel the prompt, inside its console section: the section
\* exists while the script's log is not empty
ConsoleFooterShown(scriptId) ==
    /\ Len(OutputOf(scriptId)) > 0
    /\ \/ pendingInput # Null /\ pendingInput.scriptId = scriptId
       \/ progressState # Null /\ progressState.scriptId = scriptId

handleInputChange(value) ==
    /\ Tick
    /\ UNCHANGED loaderVars
    /\ UNCHANGED viewVars
    /\ InputElementShown
    /\ inputValue' = value
    /\ UNCHANGED <<api, runningScripts, scriptStatuses, executionTimes, consoleOutput,
                   pendingInput, progressState, scriptStatusOverrides,
                   pc, promises, runPromise, activeRuns, overrideCalls>>

clearConsole_DropLast(scriptId) ==
    /\ Tick
    /\ UNCHANGED loaderVars
    /\ UNCHANGED viewVars
    /\ consoleOutput' = [consoleOutput EXCEPT ![scriptId] =
                              IF @ = <<>> THEN @ ELSE SubSeq(@, 1, Len(@) - 1)]
    /\ UNCHANGED <<api, runningScripts, scriptStatuses, executionTimes,
                   pendingInput, inputValue, progressState, scriptStatusOverrides,
                   pc, promises, runPromise, activeRuns, overrideCalls>>

clearConsole(scriptId) ==
    /\ Tick
    /\ UNCHANGED loaderVars
    /\ UNCHANGED viewVars
    /\ consoleOutput' = [consoleOutput EXCEPT ![scriptId] = <<>>]
    /\ UNCHANGED <<api, runningScripts, scriptStatuses, executionTimes,
                   pendingInput, inputValue, progressState, scriptStatusOverrides,
                   pc, promises, runPromise, activeRuns, overrideCalls>>

Next ==
    \/ \E s \in ScriptIds : RunScript(s)
    \/ \E s \in ScriptIds, m \in LogTexts : CtxLog(s, m)
    \/ \E s \in ScriptIds, p \in PromptTexts, t \in {"input", "confirm", "select"},
          awaited \in BOOLEAN : handleUserInput(s, p, t, awaited)
    \/ \E s \in ScriptIds, p \in Percents : CtxProgress(s, "loading", p)
    \/ \E s \in ScriptIds, r \in {Undefined} \cup {Str(x) : x \in Reasons} : CtxSkip(s, r)
    \/ \E s \in ScriptIds, r \in {Undefined} \cup {Str(x) : x \in Reasons} : CtxFail(s, r)
    \/ \E s \in ScriptIds : Resume(s)
    \/ \E s \in ScriptIds : ExecReturn(s)
    \/ \E s \in ScriptIds, e \in Thrown : ExecThrow(s, e)
    \/ \E v \in {Undefined} \cup {Str(x) : x \in Values} : submitInput(v)
    \/ cancelInput
    \/ \E v \in Values : handleInputChange(v)
    \/ \E s \in ScriptIds : clearConsole(s)

Spec == Init /\ [][Next]_vars

(***************************************************************************)
(* Single scripts.  Each specification below runs one script of a given    *)
(* shape, once, as script "a" of the component.                            *)
(***************************************************************************)
OrderedTexts == {"I: one", "I: two", "I: three"}
EchoPrompts == {"name?", "What is your name?"}
PercentInputs == -20..120

\* a script that logs, under a user who clears its console and asks for it again
NextLog ==
    \/ RunScript("a")
    \/ \E m \in OrderedTexts : CtxLog("a", m)
    \/ clearConsole("a")
    \/ ExecReturn("a")

SpecLog == Init /\ [][NextLog]_vars

\* exampleHelloWorld: log calls, then return
NextHello ==
    \/ scriptStatuses["a"] = "idle" /\ RunScript("a")
    \/ \E m \in OrderedTexts : CtxLog("a", m)
    \/ ExecReturn("a")

SpecHello == Init /\ [][NextHello]_vars

\* context.log(v) for the value v the script's awaited input() returned
CtxLogValue(scriptId) ==
    /\ promises[scriptId] # <<>>
    /\ promises[scriptId][Len(promises[scriptId])].t = "string"
    /\ CtxLog(scriptId, promises[scriptId][Len(promises[scriptId])].v)

\* const v = await context.input(p); context.log(v); return: the console
\* holds the start line, the prompt and the response when the script logs v
NextEcho ==
    \/ scriptStatuses["a"] = "idle" /\ RunScript("a")
    \/ \E p \in EchoPrompts :
          promises["a"] = <<>> /\ handleUserInput("a", p, "input", TRUE)
    \/ \E v \in Values : handleInputChange(v)
    \/ \E v \in {Undefined} \cup {Str(x) : x \in Values} : submitInput(v)
    \/ Resume("a")
    \/ Len(consoleOutput["a"]) = 3 /\ CtxLogValue("a")
    \/ Len(consoleOutput["a"]) = 4 /\ ExecReturn("a")

SpecEcho == Init /\ [][NextEcho]_vars

\* a script that reports progress
NextProgress ==
    \/ scriptStatuses["a"] = "idle" /\ RunScript("a")
    \/ \E p \in PercentInputs : CtxProgress("a", "loading", p)
    \/ ExecReturn("a")

SpecProgress == Init /\ [][NextProgress]_vars

(***************************************************************************)
(* A context outlives its run: a callback that a settled run of the script *)
(* left behind (a timer, a promise the script did not await) still holds   *)
(* the context object of that run and calls skip() or fail() on it.  The   *)
(* context writes to the override slot of the script id.                   *)
(***************************************************************************)
StaleSkip(scriptId) ==
    /\ Tick
    /\ UNCHANGED loaderVars
    /\ UNCHANGED viewVars
    /\ MapHas(executionTimes, scriptId)
    /\ scriptStatusOverrides' = MapSet(scriptStatusOverrides, scriptId, "skip")
    /\ UNCHANGED <<api, runningScripts, scriptStatuses, executionTimes, consoleOutput,
                   pendingInput, inputValue, progressState,
                   pc, promises, runPromise, activeRuns, overrideCalls>>

StaleFail(scriptId) ==
    /\ Tick
    /\ UNCHANGED loaderVars
    /\ UNCHANGED viewVars
    /\ MapHas(executionTimes, scriptId)
    /\ scriptStatusOverrides' = MapSet(scriptStatusOverrides, scriptId, "fail")
    /\ UNCHANGED <<api, runningScripts, scriptStatuses, executionTimes, consoleOutput,
                   pendingInput, inputValue, progressState,
                   pc, promises, runPromise, activeRuns, overrideCalls>>

\* runs of one script whose earlier runs left callbacks behind
NextStale ==
    \/ RunScript("a")
    \/ \E m \in LogTexts : CtxLog("a", m)
    \/ \E r \in {Undefined, Str("why")} : CtxSkip("a", r)
    \/ \E r \in {Undefined, Str("why")} : CtxFail("a", r)
    \/ ExecReturn("a")
    \/ StaleSkip("a")
    \/ StaleFail("a")

SpecStale == Init /\ [][NextStale]_vars

\* the callback a settled run left behind calls input(), confirm() or select()
\* on the context of that run while no run of the script is in progress
StalePrompt(scriptId, prompt, type) ==
    /\ Tick
    /\ UNCHANGED loaderVars
    /\ UNCHANGED viewVars
    /\ MapHas(executionTimes, scriptId)
    /\ pc[scriptId] = "none"
    /\ consoleOutput' = log(consoleOutput, scriptId, prompt)
    /\ scriptStatuses' = [scriptStatuses EXCEPT ![scriptId] = "waiting"]
    /\ promises' = [promises EXCEPT ![scriptId] = Append(@, Unsettled)]
    /\ pendingInput' = [scriptId |-> scriptId,
                        prompt |-> prompt,
                        type |-> type,
                        options |-> IF type = "select" THEN SelectOptions ELSE <<>>,
                        resolve |-> Len(promises[scriptId]) + 1]
    /\ UNCHANGED <<api, runningScripts, executionTimes, inputValue, progressState,
                   scriptStatusOverrides, pc, runPromise, activeRuns, overrideCalls>>

\* runs of two scripts that return at once and prompt from a callback later
NextLate ==
    \/ \E s \in ScriptIds : RunScript(s)
    \/ \E s \in ScriptIds : ExecReturn(s)
    \/ \E s \in ScriptIds, p \in PromptTexts, t \in {"input", "confirm"} : StalePrompt(s, p, t)
    \/ \E v \in {Undefined} \cup {Str(x) : x \in Values} : submitInput(v)
    \/ cancelInput

SpecLate == Init /\ [][NextLate]_vars

\* a script that calls skip() or fail() and goes on: it logs, prompts and
\* settles afterwards
NextOverride ==
    \/ RunScript("a")
    \/ \E m \in LogTexts : CtxLog("a", m)
    \/ \E r \in {Undefined} \cup {Str(x) : x \in Reasons} : CtxSkip("a", r)
    \/ \E r \in {Undefined} \cup {Str(x) : x \in Reasons} : CtxFail("a", r)
    \/ \E p \in PromptTexts, awaited \in BOOLEAN : handleUserInput("a", p, "input", awaited)
    \/ submitInput(Undefined)
    \/ Resume("a")
    \/ ExecReturn("a")
    \/ \E e \in Thrown : ExecThrow("a", e)

SpecOverride == Init /\ [][NextOverride]_vars

\* two scripts that show progress and prompt, and settle in any order
NextCleanup ==
    \/ \E s \in ScriptIds : RunScript(s)
    \/ \E s \in ScriptIds, p \in PromptTexts, awaited \in BOOLEAN :
          handleUserInput(s, p, "input", awaited)
    \/ \E s \in ScriptIds : CtxProgress(s, "loading", 150)
    \/ \E s \in ScriptIds : ExecReturn(s)
    \/ \E s \in ScriptIds, e \in Thrown : ExecThrow(s, e)

SpecCleanup == Init /\ [][NextCleanup]_vars

\* two scripts side by side, each using every capability of its context,
\* and a user who clears their consoles
NextContext ==
    \/ \E s \in ScriptIds : RunScript(s)
    \/ \E s \in ScriptIds, m \in LogTexts : CtxLog(s, m)
    \/ \E s \in ScriptIds, p \in PromptTexts, t \in {"input", "confirm", "select"} :
          handleUserInput(s, p, t, FALSE)
    \/ \E s \in ScriptIds : CtxProgress(s, "loading", 150)
    \/ \E s \in ScriptIds : CtxSkip(s, Str("why"))
    \/ \E s \in ScriptIds : CtxFail(s, Str("why"))
    \/ \E s \in ScriptIds : clearConsole(s)

SpecContext == Init /\ [][NextContext]_vars

\* scripts that prompt and await the answer, and submit and cancel handlers
\* that are invoked at any time, with or without a prompt pending
NextAnswer ==
    \/ \E s \in ScriptIds : RunScript(s)
    \/ \E s \in ScriptIds, p \in PromptTexts, t \in {"input", "confirm"} :
          handleUserInput(s, p, t, TRUE)
    \/ \E s \in ScriptIds : Resume(s)
    \/ \E s \in ScriptIds : ExecReturn(s)
    \/ \E v \in {Undefined} \cup {Str(x) : x \in Values} : submitInput(v)
    \/ cancelInput

SpecAnswer == Init /\ [][NextAnswer]_vars

(***************************************************************************)
(* Termination.  Every script is run at most once; its code requests at    *)
(* most one prompt, awaits it or not, and returns.  The event loop runs a  *)
(* continuation that is ready (Resume, ExecReturn), and the user answers   *)
(* the prompt that is pending: these steps are taken when they stay        *)
(* enabled.  Starting a script and requesting a prompt are never forced.   *)
(***************************************************************************)
ScriptStep(s) == Resume(s) \/ ExecReturn(s)

UserAnswer ==
    /\ pendingInput # Null
    /\ \/ \E v \in {Undefined} \cup {Str(x) : x \in Values} : submitInput(v)
       \/ cancelInput

NextLive ==
    \/ \E s \in ScriptIds : scriptStatuses[s] = "idle" /\ RunScript(s)
    \/ \E s \in ScriptIds, p \in PromptTexts, t \in {"input", "confirm"}, awaited \in BOOLEAN :
          promises[s] = <<>> /\ handleUserInput(s, p, t, awaited)
    \/ \E s \in ScriptIds : ScriptStep(s)
    \/ UserAnswer

SpecLive ==
    /\ Init
    /\ [][NextLive]_vars
    /\ \A s \in ScriptIds : WF_vars(ScriptStep(s))
    /\ WF_vars(UserAnswer)

(***************************************************************************)
(* Console settings.  consoleSettings holds a record for a script id once  *)
(* one of its settings has been toggled; every read defaults a missing key. *)
(***************************************************************************)
DefaultSettings == [showTimestamp |-> TRUE, wordWrap |-> TRUE, coloredOutput |-> TRUE]

\* consoleSettings.get(scriptId) || { showTimestamp: true, wordWrap: true, coloredOutput: true }
SettingsOf(settings, scriptId) == MapGet(settings, scriptId, DefaultSettings)

getConsoleSettings(scriptId) == SettingsOf(consoleSettings, scriptId)

Toggled_SwitchesOff(settings, scriptId, field) ==
    MapSet(settings, scriptId, [SettingsOf(settings, scriptId) EXCEPT ![field] = FALSE])

\* newMap.set(scriptId, { ...current, [field]: !current[field] })
Toggled(settings, scriptId, field) ==
    MapSet(settings, scriptId, [SettingsOf(settings, scriptId) EXCEPT ![field] = ~@])

toggleTimestamp(scriptId) ==
    /\ consoleSettings' = Toggled(consoleSettings, scriptId, "showTimestamp")
    /\ UNCHANGED <<loaderVars, copiedScriptId, clipboard,
                   api, runningScripts, scriptStatuses, executionTimes, consoleOutput,
                   pendingInput, inputValue, progressState, scriptStatusOverrides,
                   pc, promises, runPromise, activeRuns, overrideCalls, steps>>

toggleWordWrap(scriptId) ==
    /\ consoleSettings' = Toggled(consoleSettings, scriptId, "wordWrap")
    /\ UNCHANGED <<loaderVars, copiedScriptId, clipboard,
                   api, runningScripts, scriptStatuses, executionTimes, consoleOutput,
                   pendingInput, inputValue, progressState, scriptStatusOverrides,
                   pc, promises, runPromise, activeRuns, overrideCalls, steps>>

toggleColoredOutput(scriptId) ==
    /\ consoleSettings' = Toggled(consoleSettings, scriptId, "coloredOutput")
    /\ UNCHANGED <<loaderVars, copiedScriptId, clipboard,
                   api, runningScripts, scriptStatuses, executionTimes, consoleOutput,
                   pendingInput, inputValue, progressState, scriptStatusOverrides,
                   pc, promises, runPromise, activeRuns, overrideCalls, steps>>

\* the user at the toolbar of the two consoles
NextSettings ==
    \/ \E s \in ScriptIds : toggleTimestamp(s)
    \/ \E s \in ScriptIds : toggleWordWrap(s)
    \/ \E s \in ScriptIds : toggleColoredOutput(s)

SpecSettings == Init /\ [][NextSettings]_vars

(***************************************************************************)
(* copyConsoleOutput(scriptId).  The strings are JavaScript strings; an    *)
(* entry carries the time string log() stored with it.                     *)
(***************************************************************************)
\* String.prototype.substring(start, end) for 0 <= start <= end
substring(str, start, end) ==
    IF start >= Min(end, Len(str)) THEN "" ELSE SubSeq(str, start + 1, Min(end, Len(str)))

RECURSIVE trimStart(_)
trimStart(str) ==
    IF Len(str) > 0 /\ SubSeq(str, 1, 1) = " "
    THEN trimStart(SubSeq(str, 2, Len(str))) ELSE str

RECURSIVE trimEnd(_)
trimEnd(str) ==
    IF Len(str) > 0 /\ SubSeq(str, Len(str), Len(str)) = " "
    THEN trimEnd(SubSeq(str, 1, Len(str) - 1)) ELSE str

\* String.prototype.trim
trim(str) == trimEnd(trimStart(str))

\* /^[SEWI]:$/.exec(message.substring(0, 2))
hasPrefix(message) ==
    LET head == substring(message, 0, 2)
    IN  /\ Len(head) = 2
        /\ SubSeq(head, 1, 1) \in {"S", "E", "W", "I"}
        /\ SubSeq(head, 2, 2) = ":"

copyLine_KeepsPrefix(entry, settings) ==
    (IF settings.showTimestamp THEN entry.timestamp \o " " ELSE "") \o entry.message

\* the callback of output.map: `${prefix}${message}`
copyLine(entry, settings) ==
    (IF settings.showTimestamp THEN entry.timestamp \o " " ELSE "")
    \o (IF hasPrefix(entry.message)
        THEN trim(substring(entry.message, 2, Len(entry.message)))
        ELSE entry.message)

\* Array.prototype.join('\n')
RECURSIVE join(_)
join(lines) ==
    IF lines = <<>> THEN ""
    ELSE IF Len(lines) = 1 THEN lines[1]
    ELSE lines[1] \o "\n" \o join(Tail(lines))

copyText(output, settings) ==
    join([i \in 1..Len(output) |-> copyLine(output[i], settings)])

\* navigator.clipboard.writeText(text) fulfils, and the card shows the copied
\* mark, or it rejects and the error is printed to the browser console
copyConsoleOutput(scriptId) ==
    /\ \E written \in BOOLEAN :
          IF written
          THEN /\ clipboard' = Str(copyText(OutputOf(scriptId), getConsoleSettings(scriptId)))
               /\ copiedScriptId' = Str(scriptId)
          ELSE UNCHANGED <<clipboard, copiedScriptId>>
    /\ UNCHANGED <<loaderVars, consoleSettings,
                   api, runningScripts, scriptStatuses, executionTimes, consoleOutput,
                   pendingInput, inputValue, progressState, scriptStatusOverrides,
                   pc, promises, runPromise, activeRuns, overrideCalls, steps>>

\* setTimeout(() => setCopiedScriptId(null), 2000)
CopiedTimeout ==
    /\ copiedScriptId # Null
    /\ copiedScriptId' = Null
    /\ UNCHANGED <<loaderVars, consoleSettings, clipboard,
                   api, runningScripts, scriptStatuses, executionTimes, consoleOutput,
                   pendingInput, inputValue, progressState, scriptStatusOverrides,
                   pc, promises, runPromise, activeRuns, overrideCalls, steps>>

CopyMessages == {"I: hi", "E:  Error: boom ", "S:", "plain", " W: x", "X: y"}
Timestamps == {"10:00:00", "10:00:05"}
CopyEntries == [message : CopyMessages, timestamp : Timestamps, type : {"log"}]

\* script a in the middle of a run, with any log of at most MaxLog entries
InitCopy ==
    /\ userScripts = Bundle
    /\ production = FALSE
    /\ scripts = LoadFrom(Bundle, FALSE, 1, <<>>, {})
    /\ mounted = TRUE
    /\ api = TRUE
    /\ runningScripts = {"a"}
    /\ scriptStatuses = [s \in ScriptIds |-> IF s = "a" THEN "running" ELSE "idle"]
    /\ executionTimes = EmptyMap
    /\ consoleOutput \in [ScriptIds -> UNION {[1..n -> CopyEntries] : n \in 0..MaxLog}]
    /\ consoleOutput["b"] = <<>>
    /\ pendingInput = Null
    /\ inputValue = ""
    /\ progressState = Null
    /\ scriptStatusOverrides = EmptyMap
    /\ consoleSettings = EmptyMap
    /\ copiedScriptId = Null
    /\ clipboard = Null
    /\ pc = [s \in ScriptIds |-> IF s = "a" THEN "exec" ELSE "none"]
    /\ promises = [s \in ScriptIds |-> <<>>]
    /\ runPromise = [s \in ScriptIds |-> IF s = "a" THEN "pending" ELSE "none"]
    /\ activeRuns = [s \in ScriptIds |-> IF s = "a" THEN 1 ELSE 0]
    /\ overrideCalls = [s \in ScriptIds |-> {}]
    /\ steps = 0

\* the user at the toolbar of the console of a
NextCopy ==
    \/ toggleTimestamp("a")
    \/ copyConsoleOutput("a")
    \/ CopiedTimeout

SpecCopy == InitCopy /\ [][NextCopy]_vars

(***************************************************************************)
(* Properties                                                              *)
(***************************************************************************)
Entry(message) == [message |-> message, type |-> "log"]
Terminal == {"success", "error", "skipped"}
Holds(scriptId) == pendingInput # Null /\ pendingInput.scriptId = scriptId
Contains(scriptId, message) ==
    \E i \in 1..Len(consoleOutput[scriptId]) : consoleOutput[scriptId][i] = Entry(message)

\* C1: a run(A) request issued while A is in the running set is rejected: the
\* running set, every status, the script's position, its promises and the
\* count of execute calls stay as they are, and A's log is not reset but
\* extended by the warning.
C1_RunningRejected ==
    [][\A s \in ScriptIds :
          (s \in runningScripts /\ RunScript(s)) =>
             /\ activeRuns' = activeRuns
             /\ pc' = pc
             /\ promises' = promises
             /\ runningScripts' = runningScripts
             /\ scriptStatuses' = scriptStatuses
             /\ consoleOutput'[s] =
                   Append(consoleOutput[s], Entry("W: Script is already running"))]_vars

C1_Witness ==
    /\ "a" \in runningScripts
    /\ activeRuns["a"] = 1
    /\ consoleOutput["a"] = <<Entry("Starting script: Alpha"),
                              Entry("W: Script is already running")>>

\* C2: for A # B, while A holds the system-wide PendingInput, run(B) is rejected:
\* B does not enter the running set and execute is not called for B.
C2_OtherWaitingRejected ==
    [][\A s1 \in ScriptIds, s2 \in ScriptIds :
          (s1 # s2 /\ Holds(s1) /\ RunScript(s2)) =>
             /\ (s2 \in runningScripts') = (s2 \in runningScripts)
             /\ activeRuns' = activeRuns
             /\ pc' = pc
             /\ pendingInput' = pendingInput
             /\ scriptStatuses' = scriptStatuses]_vars

C2_Witness ==
    /\ Holds("a")
    /\ "b" \notin runningScripts
    /\ activeRuns["b"] = 0
    /\ consoleOutput["b"] = <<Entry("W: Another script is waiting for input")>>

\* C3: for A # B, if A is running and not waiting, no PendingInput exists and B
\* is not in the running set, run(B) is admitted, after which A and B are both
\* in the running set with status running.
C3_ConcurrentAdmitted ==
    [][\A s1 \in ScriptIds, s2 \in ScriptIds :
          (/\ s1 # s2
           /\ s1 \in runningScripts
           /\ scriptStatuses[s1] = "running"
           /\ pendingInput = Null
           /\ s2 \notin runningScripts
           /\ RunScript(s2)) =>
             /\ {s1, s2} \subseteq runningScripts'
             /\ scriptStatuses'[s1] = "running"
             /\ scriptStatuses'[s2] = "running"
             /\ activeRuns'[s2] = 1
             /\ pc'[s2] = "exec"]_vars

C3_Witness ==
    /\ runningScripts = {"a", "b"}
    /\ scriptStatuses["a"] = "running"
    /\ scriptStatuses["b"] = "running"
    /\ activeRuns = [s \in ScriptIds |-> 1]

\* C4, as stated: in every reachable state at most one script id has status
\* running or waiting.
C4_Original ==
    Cardinality({s \in ScriptIds : scriptStatuses[s] \in {"running", "waiting"}}) <= 1

\* C4, amended: in every reachable state at most one run of each script id is
\* executing, and execute is called for a script only when that script is not
\* in the running set and no other script holds PendingInput; scripts with
\* different ids may be running at the same time.
C4_Amended ==
    /\ [](\A s \in ScriptIds : activeRuns[s] <= 1)
    /\ [][\A s \in ScriptIds :
             activeRuns'[s] > activeRuns[s] =>
                /\ s \notin runningScripts
                /\ pendingInput = Null \/ pendingInput.scriptId = s]_vars

C4_Witness ==
    /\ runningScripts = {"a", "b"}
    /\ Holds("a")
    /\ scriptStatuses["a"] = "waiting"
    /\ scriptStatuses["b"] = "running"
    /\ pc["b"] = "exec"

\* C5: in every reachable state at most one script id has status waiting, and
\* at most one prompt request of the runs in progress is issued and not yet
\* settled.
Outstanding ==
    {<<s, i>> \in ScriptIds \X (1..MaxSteps) :
        /\ activeRuns[s] > 0
        /\ i <= Len(promises[s])
        /\ promises[s][i] = Unsettled}

C5_Claim ==
    /\ Cardinality({s \in ScriptIds : scriptStatuses[s] = "waiting"}) <= 1
    /\ Cardinality(Outstanding) <= 1

\* C6: in every reachable state, if PendingInput is set then the script it
\* names has status waiting and is the only script with status waiting.
C6_Claim ==
    pendingInput # Null =>
        /\ scriptStatuses[pendingInput.scriptId] = "waiting"
        /\ \A s \in ScriptIds :
              scriptStatuses[s] = "waiting" => s = pendingInput.scriptId

C8_CleanupTotal ==
    \A s \in ScriptIds :
        scriptStatuses[s] \in Terminal =>
            /\ s \notin runningScripts
            /\ activeRuns[s] = 0
            /\ ~Holds(s)
            /\ ~(progressState # Null /\ progressState.scriptId = s)
            /\ ~MapHas(scriptStatusOverrides, s)
            /\ MapHas(executionTimes, s)

\* the run ended while its own prompt was still pending
C8_Witness ==
    /\ scriptStatuses["a"] = "success"
    /\ consoleOutput["a"] = <<Entry("Starting script: Alpha"),
                              Entry("name?"),
                              Entry("S: Script completed successfully")>>
    /\ pendingInput = Null

\* C9: if execute throws, the run's final status is error whatever override
\* was recorded, exactly one error line carrying the thrown message is
\* appended to the script's log, the promise of runScript() is fulfilled and
\* the cleanup has run.
C9_ThrowIsError ==
    [][\A s \in ScriptIds, e \in Thrown :
          ExecThrow(s, e) =>
             /\ scriptStatuses'[s] = "error"
             /\ consoleOutput'[s] =
                   Append(consoleOutput[s],
                          Entry("E: Error: " \o (IF e.isError THEN e.message ELSE e.str)))
             /\ runPromise'[s] = "fulfilled"
             /\ s \notin runningScripts'
             /\ activeRuns'[s] = 0
             /\ pendingInput' = Null \/ pendingInput'.scriptId # s
             /\ progressState' = Null \/ progressState'.scriptId # s
             /\ ~MapHas(scriptStatusOverrides', s)
             /\ MapHas(executionTimes', s)]_vars

C9_Witness ==
    /\ scriptStatuses["a"] = "error"
    /\ runPromise["a"] = "fulfilled"
    /\ consoleOutput["a"] = <<Entry("Starting script: Alpha"),
                              Entry("I: Skipped: why"),
                              Entry("E: Error: boom")>>

\* C10: when execute returns without throwing and fail() was called during the
\* run, the final status is error, also when skip() was called in the same run.
\* The line "E: Failed: why" in the log of a settled run records a call of
\* fail("why") in that run; a run that threw ends in error as well.
C10_Claim ==
    \A s \in ScriptIds :
        (scriptStatuses[s] \in Terminal /\ Contains(s, "E: Failed: why")) =>
            scriptStatuses[s] = "error"

SubmitArgs == {Undefined} \cup {Str(x) : x \in Values}

\* C12: for a pending input or select request, submit(v) resolves the promise
\* of that request with exactly v, appends exactly one entry to the requesting
\* script's log, whose text is v or "(empty)" when v is the empty string, sets
\* that script's status to running and clears PendingInput; submit() with no
\* argument and nothing typed resolves with the empty string.
C12_PromptRoundTrip ==
    [][\A v \in SubmitArgs :
          (/\ pendingInput # Null
           /\ pendingInput.type \in {"input", "select"}
           /\ submitInput(v)) =>
             LET s == pendingInput.scriptId
                 i == pendingInput.resolve
             IN  /\ promises[s][i] = Unsettled
                 /\ v # Undefined =>
                       /\ promises'[s][i] = v
                       /\ consoleOutput'[s] =
                             Append(consoleOutput[s],
                                    Entry(IF v.v = "" THEN "(empty)" ELSE v.v))
                 /\ (v = Undefined /\ inputValue = "") =>
                       /\ promises'[s][i] = Str("")
                       /\ consoleOutput'[s] = Append(consoleOutput[s], Entry("(empty)"))
                 /\ Len(consoleOutput'[s]) = Len(consoleOutput[s]) + 1
                 /\ scriptStatuses'[s] = "running"
                 /\ pendingInput' = Null]_vars

C12_Witness ==
    /\ promises["a"] = <<Str("hello")>>
    /\ consoleOutput["a"] = <<Entry("Starting script: Alpha"),
                              Entry("name?"),
                              Entry("hello")>>
    /\ scriptStatuses["a"] = "running"
    /\ pendingInput = Null

C14_Cancellation ==
    [][(/\ pendingInput # Null
        /\ pendingInput.type \in {"input", "confirm"}
        /\ cancelInput) =>
          LET s == pendingInput.scriptId
              i == pendingInput.resolve
          IN  /\ promises[s][i] = Unsettled
              /\ promises'[s][i] = IF pendingInput.type = "input" THEN Str("") ELSE Bool(FALSE)
              /\ consoleOutput'[s] =
                    Append(consoleOutput[s], Entry("W: User cancelled input"))
              /\ scriptStatuses'[s] = "running"
              /\ pendingInput' = Null
              /\ pc'[s] = pc[s]]_vars

\* a confirm request was cancelled
C14_Witness ==
    /\ promises["a"] = <<Bool(FALSE)>>
    /\ consoleOutput["a"] = <<Entry("Starting script: Alpha"),
                              Entry("name?"),
                              Entry("W: User cancelled input")>>
    /\ scriptStatuses["a"] = "running"
    /\ pendingInput = Null

\* C15: cancel() on a pending select request resolves the promise of that
\* request with the empty string.
C15_Claim ==
    [][(/\ pendingInput # Null
        /\ pendingInput.type = "select"
        /\ cancelInput) =>
          promises'[pendingInput.scriptId][pendingInput.resolve] = Str("")]_vars

\* C16: every append to the log of script id S puts the message after the
\* entries S's log already has, so N appends give N entries in call order;
\* clearConsole(S) leaves S's log empty; an append to an empty log gives a log
\* of length 1.
C16_LogOrder ==
    [][/\ \A m \in OrderedTexts :
             CtxLog("a", m) =>
                /\ consoleOutput'["a"] = Append(consoleOutput["a"], Entry(m))
                /\ consoleOutput["a"] = <<>> => consoleOutput'["a"] = <<Entry(m)>>
       /\ clearConsole("a") => Len(consoleOutput'["a"]) = 0]_vars

\* the console was cleared during the run, then two messages were logged
C16_Witness ==
    /\ pc["a"] = "exec"
    /\ consoleOutput["a"] = <<Entry("I: two"), Entry("I: one")>>

IsPrefix(p, q) == Len(p) <= Len(q) /\ SubSeq(q, 1, Len(p)) = p

\* C17: in every step, the log of each script either is extended at its end
\* (or unchanged), or is emptied by clearConsole, or is reset by the admission
\* of a run to the start line alone; no entry is modified, reordered or
\* removed on its own.
C17_AppendOnly ==
    [][\A s \in ScriptIds :
          \/ IsPrefix(consoleOutput[s], consoleOutput'[s])
          \/ clearConsole(s) /\ consoleOutput'[s] = <<>>
          \/ /\ RunScript(s)
             /\ s \notin runningScripts
             /\ consoleOutput'[s] = <<Entry("Starting script: " \o name(s))>>]_vars

\* a log that was emptied by clearConsole during the run and extended again
C17_Witness ==
    /\ pc["a"] = "exec"
    /\ consoleOutput["a"] = <<Entry("I: hi"), Entry("name?")>>

\* C18: after the run of a script that makes n log calls, issues no prompt,
\* records no override and returns, the script's log is the start line, the
\* n messages in call order and the success line, n + 2 entries, and the
\* status is success.  (The run takes one step for its admission, one per
\* log call and one for the return.)
C18_HelloLog ==
    /\ [](scriptStatuses["a"] = "success" =>
             LET out == consoleOutput["a"]
             IN  /\ Len(out) = steps
                 /\ Len(out) >= 2
                 /\ out[1] = Entry("Starting script: Alpha")
                 /\ out[Len(out)] = Entry("S: Script completed successfully")
                 /\ \A i \in 2..(Len(out) - 1) :
                       out[i] \in {Entry(m) : m \in OrderedTexts})
    /\ [][\A m \in OrderedTexts :
             CtxLog("a", m) =>
                consoleOutput'["a"] = Append(consoleOutput["a"], Entry(m))]_vars

C18_Witness ==
    /\ scriptStatuses["a"] = "success"
    /\ consoleOutput["a"] = <<Entry("Starting script: Alpha"),
                              Entry("I: two"),
                              Entry("I: one"),
                              Entry("S: Script completed successfully")>>

\* the entry submit appends for the value v
Response(v) == Entry(IF v = "" THEN "(empty)" ELSE v)

\* C19: for a script that awaits input(p), logs the returned value v and
\* returns: once the script runs again after the await, the response entry is
\* in its log right after the prompt, before anything the script logs then;
\* after the run the log is the start line, the prompt p, the response entry
\* for v, the script's entry v and the success line, and the status is success.
C19_EchoOrder ==
    LET out == consoleOutput["a"]
    IN  /\ (pc["a"] = "exec" /\ promises["a"] # <<>>) =>
              /\ promises["a"][1].t = "string"
              /\ Len(out) >= 3
              /\ out[2] \in {Entry(p) : p \in EchoPrompts}
              /\ out[3] = Response(promises["a"][1].v)
        /\ scriptStatuses["a"] = "success" =>
              \E p \in EchoPrompts, v \in Values :
                 /\ promises["a"] = <<Str(v)>>
                 /\ out = <<Entry("Starting script: Alpha"),
                            Entry(p),
                            Response(v),
                            Entry(v),
                            Entry("S: Script completed successfully")>>

C19_Witness ==
    /\ scriptStatuses["a"] = "success"
    /\ consoleOutput["a"] = <<Entry("Starting script: Alpha"),
                              Entry("name?"),
                              Entry("hello"),
                              Entry("hello"),
                              Entry("S: Script completed successfully")>>

\* C20: progress(message, p) stores percent = min(100, max(0, p)): p itself
\* within [0, 100], 0 for p below 0 and 100 for p above 100, so the stored
\* percent is always within [0, 100].
C20_Clamp ==
    /\ [](progressState # Null => progressState.percent \in 0..100)
    /\ [][\A p \in PercentInputs :
             CtxProgress("a", "loading", p) =>
                progressState'.percent = (IF p < 0 THEN 0 ELSE IF p > 100 THEN 100 ELSE p)]_vars

C20_Witness ==
    /\ progressState = [scriptId |-> "a", message |-> "loading", percent |-> 100]
    /\ scriptStatuses["a"] = "running"

\* run(S) is rejected: S is running, or another script holds PendingInput
Rejected(s) ==
    /\ api
    /\ s \in runningScripts \/ (pendingInput # Null /\ pendingInput.scriptId # s)

\* C21: a rejected run(S) changes nothing except that it appends exactly one
\* warning line to S's log: every status, the running set, PendingInput,
\* ProgressState, the execution times, the override flags, the logs of the
\* other scripts and the entries S's log already had stay as they are, and
\* no run is started or settled.
C21_RejectFrame ==
    [][\A s \in ScriptIds :
          (Rejected(s) /\ RunScript(s)) =>
             /\ scriptStatuses' = scriptStatuses
             /\ runningScripts' = runningScripts
             /\ pendingInput' = pendingInput
             /\ inputValue' = inputValue
             /\ progressState' = progressState
             /\ executionTimes' = executionTimes
             /\ scriptStatusOverrides' = scriptStatusOverrides
             /\ <<pc, promises, runPromise, activeRuns>>' = <<pc, promises, runPromise, activeRuns>>
             /\ \A t \in ScriptIds \ {s} : consoleOutput'[t] = consoleOutput[t]
             /\ \E w \in {"W: Script is already running",
                           "W: Another script is waiting for input"} :
                   consoleOutput'[s] = Append(consoleOutput[s], Entry(w))]_vars

\* run(a) was rejected while a was running with a progress report on show
C21_Witness ==
    /\ progressState # Null
    /\ progressState.scriptId = "a"
    /\ scriptStatuses["a"] = "running"
    /\ consoleOutput["a"] = <<Entry("Starting script: Alpha"),
                              Entry("W: Script is already running")>>

\* the files a registry holds when nothing is lost: in key order, the first
\* file of each id, without the README-like ids, the modules with no default
\* object and, in a production build, the examples
NoEarlierFile(file) ==
    \A i, j \in 1..Len(userScripts) :
       (userScripts[j] = file /\ userScripts[i].name = file.name) => j <= i
Kept(file) ==
    /\ file.name # "README"
    /\ NoEarlierFile(file)
    /\ file.kind = "object"
    /\ ~(production /\ file.isExample)
Registry ==
    LET kept == SelectSeq(userScripts, Kept)
    IN  [i \in 1..Len(kept) |-> [id |-> kept[i].name, metadata |-> kept[i]]]
NoThrow == \A i \in 1..Len(userScripts) : userScripts[i].kind # "throws"

\* C22: the loaded registry holds entries in key order, only the first file of
\* each id, no file with a README-like id and, in a production build, no
\* example; no id appears twice; and when no module throws it holds every
\* such file.
C22_RegistryLoad ==
    mounted =>
       /\ IsPrefix(scripts, Registry)
       /\ \A i, j \in 1..Len(scripts) : scripts[i].id = scripts[j].id => i = j
       /\ \A i \in 1..Len(scripts) :
             /\ scripts[i].id # "README"
             /\ production => ~scripts[i].metadata.isExample
       /\ NoThrow => scripts = Registry

\* a production build: the README is left out, and of the two files of id
\* "a" the first is kept
C22_Witness ==
    /\ mounted
    /\ production
    /\ Len(userScripts) = 3
    /\ userScripts[1].name = "a" /\ userScripts[1].ext = "js"
    /\ userScripts[2].name = "a" /\ userScripts[2].kind = "object"
    /\ userScripts[3].name = "README" /\ userScripts[3].kind = "object"
    /\ scripts = <<[id |-> "a", metadata |-> userScripts[1]]>>

\* C23: a module that fails to load is dropped and the load goes on: every
\* other valid file, before and after the failing one in key order, is in the
\* loaded registry.
C23_Claim ==
    mounted => scripts = Registry

\* C24: on admission of run(S), S's status becomes running, S enters the
\* running set, no override flag is left for S, and S's log is exactly the
\* single entry "Starting script: <name>" when execute starts, whatever the
\* log held before.
C24_Admission ==
    [][\A s \in ScriptIds :
          (api /\ ~Rejected(s) /\ RunScript(s)) =>
             /\ scriptStatuses'[s] = "running"
             /\ runningScripts' = runningScripts \cup {s}
             /\ ~MapHas(scriptStatusOverrides', s)
             /\ consoleOutput'[s] = <<Entry("Starting script: " \o name(s))>>
             /\ pc'[s] = "exec"
             /\ activeRuns'[s] = 1]_vars

\* a is admitted again after a run of a that left its entries in the log
C24_Witness ==
    /\ scriptStatuses["a"] = "running"
    /\ consoleOutput["a"] = <<Entry("Starting script: Alpha")>>
    /\ MapHas(executionTimes, "a")
    /\ scriptStatuses["b"] = "idle"
    /\ pc["a"] = "exec"

\* the promise of index i of script s is the one PendingInput holds
IsPending(s, i) == pendingInput # Null /\ pendingInput.scriptId = s /\ pendingInput.resolve = i
IsPendingNext(s, i) ==
    pendingInput' # Null /\ pendingInput'.scriptId = s /\ pendingInput'.resolve = i

\* C26: a prompt request that arrives while another is pending replaces
\* PendingInput with the new request, and the promise of a replaced request is
\* never settled: no later submit, cancel or cleanup settles an unsettled
\* promise that PendingInput does not hold.
C26_LastRequestWins ==
    [][\A s \in ScriptIds :
          \* a prompt request of s arrives: handleUserInput creates its promise
          /\ (pendingInput # Null /\ Len(promises'[s]) = Len(promises[s]) + 1) =>
                /\ IsPendingNext(s, Len(promises[s]) + 1)
                /\ promises'[s][Len(promises[s]) + 1] = Unsettled
                /\ promises'[pendingInput.scriptId][pendingInput.resolve] = Unsettled
                /\ ~IsPendingNext(pendingInput.scriptId, pendingInput.resolve)
          /\ (promises'[s] # promises[s] \/ pendingInput' # pendingInput) =>
                \A i \in 1..Len(promises[s]) :
                   (/\ promises[s][i] = Unsettled
                    /\ ~IsPending(s, i)
                    /\ i <= Len(promises'[s])) =>
                      /\ promises'[s][i] = Unsettled
                      /\ ~IsPendingNext(s, i)]_vars

\* the replaced request is still unsettled after the submit that answered
\* the request that replaced it
C26_Witness ==
    /\ promises["a"] = <<Unsettled, Str("hello")>>
    /\ pendingInput = Null
    /\ scriptStatuses["a"] = "running"

\* C25: a run of S is classified only by the skip() and fail() calls made
\* through its own context: a run that returns having called neither ends in
\* success, one that called only skip() in skipped, one that called only
\* fail() in error, whatever the contexts of other runs of S did.
C25_Claim ==
    [][ExecReturn("a") =>
          /\ overrideCalls["a"] = {} => scriptStatuses'["a"] = "success"
          /\ overrideCalls["a"] = {"skip"} => scriptStatuses'["a"] = "skipped"
          /\ overrideCalls["a"] = {"fail"} => scriptStatuses'["a"] = "error"]_vars

\* the status changes of one script id
Changes(allowed) ==
    \A s \in ScriptIds :
       scriptStatuses'[s] # scriptStatuses[s] =>
          <<scriptStatuses[s], scriptStatuses'[s]>> \in allowed

C28_ReRunnable ==
    [][\A s \in ScriptIds :
          (/\ scriptStatuses[s] \in Terminal
           /\ pendingInput = Null \/ pendingInput.scriptId = s
           /\ RunScript(s)) =>
             /\ s \in runningScripts'
             /\ scriptStatuses'[s] = "running"
             /\ activeRuns'[s] = activeRuns[s] + 1
             /\ pc'[s] = "exec"]_vars

\* a runs again, beside b, after its first run has settled
C28_Witness ==
    /\ MapHas(executionTimes, "a")
    /\ runningScripts = {"a", "b"}
    /\ scriptStatuses["a"] = "running"
    /\ activeRuns["a"] = 1
    /\ consoleOutput["a"] = <<Entry("Starting script: Alpha")>>

\* C29: when the scripts' code terminates once its awaited prompt is answered
\* and the user answers every pending prompt, every admitted run leaves the
\* running set, also when several scripts run at the same time (as far as
\* the step bound lets the run go on).
C29_Claim ==
    \A s \in ScriptIds :
       (s \in runningScripts) ~> (s \notin runningScripts \/ steps = MaxSteps)

\* the reasons skip() and fail() are called with
ReasonArgs == {Undefined} \cup {Str(x) : x \in Reasons}

\* C30: skip() and fail() do not end the run: the call leaves the script's
\* status, the running set and the script's position as they are; as long as
\* execute has not settled after such a call the script is in the running set
\* with status running (waiting while it prompts); and what the script logs
\* after the call is appended at the end of its log.
C30_OverrideKeepsRunning ==
    /\ [](overrideCalls["a"] # {} =>
             /\ "a" \in runningScripts
             /\ scriptStatuses["a"] \in {"running", "waiting"}
             /\ pc["a"] # "none")
    /\ [][/\ (\E r \in ReasonArgs : CtxSkip("a", r) \/ CtxFail("a", r)) =>
               /\ scriptStatuses' = scriptStatuses
               /\ runningScripts' = runningScripts
               /\ pc' = pc
               /\ activeRuns' = activeRuns
          /\ \A m \in LogTexts :
                overrideCalls["a"] # {} /\ CtxLog("a", m) =>
                   consoleOutput'["a"] = Append(consoleOutput["a"], Entry(m))]_vars

\* the script went on logging after fail("why")
C30_Witness ==
    /\ scriptStatuses["a"] = "running"
    /\ "a" \in runningScripts
    /\ MapGet(scriptStatusOverrides, "a", "undefined") = "fail"
    /\ consoleOutput["a"] = <<Entry("Starting script: Alpha"),
                              Entry("E: Failed: why"),
                              Entry("I: hi")>>

\* the kind of the log entry a prompt request of the given type is to leave
PromptKind(type) == IF type = "confirm" THEN "confirm-prompt" ELSE "input-prompt"

\* C31: a prompt request appends the prompt text to the requesting script's
\* log with the kind of the request (input-prompt for input, confirm-prompt
\* for confirm); a submitted answer is appended with kind input-response; a
\* plain log() call appends an entry of kind log.
C31_Claim ==
    [][/\ \A s \in ScriptIds, p \in PromptTexts, t \in {"input", "confirm"}, awaited \in BOOLEAN :
             handleUserInput(s, p, t, awaited) =>
                consoleOutput'[s] = Append(consoleOutput[s],
                                           [message |-> p, type |-> PromptKind(t)])
       /\ \A v \in {Undefined} \cup {Str(x) : x \in Values} :
             pendingInput # Null /\ submitInput(v) =>
                LET s == pendingInput.scriptId
                IN  /\ Len(consoleOutput'[s]) = Len(consoleOutput[s]) + 1
                    /\ consoleOutput'[s][Len(consoleOutput'[s])].type = "input-response"
       /\ \A s \in ScriptIds, m \in LogTexts :
             CtxLog(s, m) => consoleOutput'[s] = Append(consoleOutput[s], Entry(m))]_vars

\* what is left of a logged message once a leading S:, E:, W: or I: and the
\* blanks around the rest are taken away; other messages are left as stored
PrefixRemoved ==
    [m \in CopyMessages |->
        CASE m = "I: hi" -> "hi"
          [] m = "E:  Error: boom " -> "Error: boom"
          [] m = "S:" -> ""
          [] m = "plain" -> "plain"
          [] m = " W: x" -> " W: x"
          [] m = "X: y" -> "X: y"]

\* one text per entry, in log order, separated by line breaks
RECURSIVE Transcript(_, _)
Transcript(output, withTime) ==
    IF output = <<>> THEN ""
    ELSE LET n == Len(output)
             text == (IF withTime THEN output[n].timestamp \o " " ELSE "")
                     \o PrefixRemoved[output[n].message]
         IN  IF n = 1 THEN text
             ELSE Transcript(SubSeq(output, 1, n - 1), withTime) \o "\n" \o text

\* C32, as stated: copyConsole(S) emits one line per entry of S's log, in log
\* order, joined by newlines, each line being the message without its leading
\* S:/E:/W:/I: prefix, or the message as stored when it has none; the stored
\* log is unchanged.
C32_Original ==
    [][copyConsoleOutput("a") =>
          /\ clipboard' = Str(Transcript(consoleOutput["a"], FALSE))
          /\ consoleOutput' = consoleOutput]_vars

\* C32, amended: copyConsole(S) emits one text per entry of S's log, in log
\* order, joined by newlines: the entry's time string and a blank while S's
\* timestamp setting is on (the default), then the message without its
\* leading S:/E:/W:/I: prefix and the blanks around the rest, or the message
\* as stored when it has no such prefix; the stored log is unchanged.
C32_Amended ==
    [][copyConsoleOutput("a") =>
          /\ clipboard' = Str(Transcript(consoleOutput["a"], getConsoleSettings("a").showTimestamp))
          /\ consoleOutput' = consoleOutput]_vars

\* a log of two entries copied with the timestamps switched off
C32_Witness ==
    /\ consoleOutput["a"] = <<[message |-> "E:  Error: boom ", timestamp |-> "10:00:00", type |-> "log"],
                              [message |-> "plain", timestamp |-> "10:00:05", type |-> "log"]>>
    /\ ~getConsoleSettings("a").showTimestamp
    /\ clipboard = Str("Error: boom\nplain")
    /\ copiedScriptId = Str("a")

\* C33: a script id has status running or waiting exactly when it is in the
\* running set; no script outside the running set is shown as running or
\* waiting.
C33_Claim ==
    \A s \in ScriptIds :
       scriptStatuses[s] \in {"running", "waiting"} <=> s \in runningScripts

\* C34: whenever a PendingInput exists, the controls that submit and cancel
\* it are available on the card of the waiting script, also after
\* clearConsole on that script.
C34_Claim ==
    pendingInput # Null => ConsoleFooterShown(pendingInput.scriptId)

\* C35: the end of a run of a script that does not own the pending prompt
\* leaves the text typed for the prompt unchanged.
C35_Claim ==
    [][\A s \in ScriptIds :
          (/\ pendingInput # Null
           /\ pendingInput.scriptId # s
           /\ ExecReturn(s) \/ \E e \in Thrown : ExecThrow(s, e)) =>
             inputValue' = inputValue]_vars

\* C36: submit() and cancel() invoked while no PendingInput exists are no-ops:
\* no log entry is appended, no status changes, no promise is settled, and
\* nothing else of the console changes.
C36_NoPendingNoOp ==
    [][(/\ pendingInput = Null
        /\ cancelInput \/ \E v \in {Undefined} \cup {Str(x) : x \in Values} : submitInput(v)) =>
          /\ consoleOutput' = consoleOutput
          /\ scriptStatuses' = scriptStatuses
          /\ promises' = promises
          /\ UNCHANGED <<runningScripts, executionTimes, pendingInput, inputValue,
                         progressState, scriptStatusOverrides, pc, runPromise, activeRuns>>]_vars

\* the third handler after run(a) and its return was a submit or a cancel
C36_Witness ==
    /\ steps = 3
    /\ pendingInput = Null
    /\ scriptStatuses = [s \in ScriptIds |-> IF s = "a" THEN "success" ELSE "idle"]
    /\ consoleOutput["a"] = <<Entry("Starting script: Alpha"),
                              Entry("S: Script completed successfully")>>
    /\ consoleOutput["b"] = <<>>

\* C37: the end of script A's run, cleanup included, clears neither a
\* PendingInput nor a ProgressState owned by another script B, and leaves B's
\* status, log, execution time and membership in the running set unchanged.
C37_CleanupFrame ==
    [][\A a \in ScriptIds :
          (ExecReturn(a) \/ \E e \in Thrown : ExecThrow(a, e)) =>
             /\ (pendingInput # Null /\ pendingInput.scriptId # a) => pendingInput' = pendingInput
             /\ (progressState # Null /\ progressState.scriptId # a) => progressState' = progressState
             /\ \A b \in ScriptIds \ {a} :
                   /\ scriptStatuses'[b] = scriptStatuses[b]
                   /\ consoleOutput'[b] = consoleOutput[b]
                   /\ MapHas(executionTimes', b) = MapHas(executionTimes, b)
                   /\ MapGet(executionTimes', b, 0) = MapGet(executionTimes, b, 0)
                   /\ (b \in runningScripts') = (b \in runningScripts)]_vars

\* a's run has ended while b shows progress and waits for an answer
C37_Witness ==
    /\ scriptStatuses["a"] \in Terminal
    /\ MapHas(executionTimes, "a")
    /\ "b" \in runningScripts
    /\ scriptStatuses["b"] = "waiting"
    /\ pendingInput # Null /\ pendingInput.scriptId = "b"
    /\ progressState # Null /\ progressState.scriptId = "b"

\* a call script A makes on its context
ContextCall(A) ==
    \/ \E m \in LogTexts : CtxLog(A, m)
    \/ \E p \in PromptTexts, t \in {"input", "confirm", "select"} : handleUserInput(A, p, t, FALSE)
    \/ CtxProgress(A, "loading", 150)
    \/ CtxSkip(A, Str("why"))
    \/ CtxFail(A, Str("why"))

\* C38: every context call made by script A's run writes only A's log, A's
\* status, A's override flag, or a PendingInput or ProgressState record whose
\* scriptId is A; clearConsole(A) changes only A's log.
C38_Attribution ==
    [][\A A \in ScriptIds :
          /\ ContextCall(A) =>
                /\ \A B \in ScriptIds \ {A} :
                      /\ consoleOutput'[B] = consoleOutput[B]
                      /\ scriptStatuses'[B] = scriptStatuses[B]
                      /\ MapHas(scriptStatusOverrides', B) = MapHas(scriptStatusOverrides, B)
                      /\ MapGet(scriptStatusOverrides', B, "none") = MapGet(scriptStatusOverrides, B, "none")
                /\ pendingInput' # pendingInput => pendingInput'.scriptId = A
                /\ progressState' # progressState => progressState'.scriptId = A
                /\ UNCHANGED <<runningScripts, executionTimes, inputValue, consoleSettings>>
          /\ clearConsole(A) =>
                /\ \A B \in ScriptIds \ {A} : consoleOutput'[B] = consoleOutput[B]
                /\ UNCHANGED <<runningScripts, scriptStatuses, executionTimes, pendingInput,
                               inputValue, progressState, scriptStatusOverrides, consoleSettings>>]_vars

\* a has logged, prompted, shown progress and called skip() beside b, whose
\* log, status and override flag are as its admission left them
C38_Witness ==
    /\ runningScripts = {"a", "b"}
    /\ consoleOutput["a"] = <<Entry("Starting script: Alpha"), Entry("I: hi"),
                              Entry("name?"), Entry("I: Skipped: why")>>
    /\ pendingInput # Null /\ pendingInput.scriptId = "a"
    /\ progressState # Null /\ progressState.scriptId = "a"
    /\ MapGet(scriptStatusOverrides, "a", "none") = "skip"
    /\ consoleOutput["b"] = <<Entry("Starting script: Beta")>>
    /\ scriptStatuses["b"] = "running"
    /\ ~MapHas(scriptStatusOverrides, "b")

SettingFields == {"showTimestamp", "wordWrap", "coloredOutput"}

\* the toggle of the given setting ran for script s
ToggleOf(s, field) ==
    CASE field = "showTimestamp" -> toggleTimestamp(s)
      [] field = "wordWrap" -> toggleWordWrap(s)
      [] field = "coloredOutput" -> toggleColoredOutput(s)

\* C39: console settings default to timestamp, word-wrap and colour all on
\* for every script id; toggling one setting of script S flips that setting
\* of S and leaves S's other settings and the settings of every other script
\* as they are; toggling the same setting twice gives back the settings every
\* script had before.
C39_Settings ==
    /\ \A s \in ScriptIds :
          /\ getConsoleSettings(s).showTimestamp
          /\ getConsoleSettings(s).wordWrap
          /\ getConsoleSettings(s).coloredOutput
    /\ [][\A s \in ScriptIds, field \in SettingFields :
             ToggleOf(s, field) =>
                /\ SettingsOf(consoleSettings', s)[field] = ~SettingsOf(consoleSettings, s)[field]
                /\ \A other \in SettingFields \ {field} :
                      SettingsOf(consoleSettings', s)[other] = SettingsOf(consoleSettings, s)[other]
                /\ \A t \in ScriptIds \ {s} :
                      SettingsOf(consoleSettings', t) = SettingsOf(consoleSettings, t)]_vars
    /\ [](\A s \in ScriptIds, field \in SettingFields, t \in ScriptIds :
             SettingsOf(Toggled(Toggled(consoleSettings, s, field), s, field), t)
                = SettingsOf(consoleSettings, t))

\* the timestamps of a are off, set once; the word wrap of b is on again,
\* set twice
C39_Witness ==
    /\ MapHas(consoleSettings, "a") /\ MapHas(consoleSettings, "b")
    /\ consoleSettings["a"] = [showTimestamp |-> FALSE, wordWrap |-> TRUE, coloredOutput |-> TRUE]
    /\ consoleSettings["b"] = [showTimestamp |-> TRUE, wordWrap |-> TRUE, coloredOutput |-> TRUE]
=============================================================================
